---------------------------- MODULE Spec2Model ----------------------------
(***************************************************************************)
(* A model of vrdpkg: the path confinement functions of path_utils.rs,     *)
(* the recipe host functions of lua_functions.rs / file_operations.rs      *)
(* acting on a small file system, and the build lifecycle of main.rs.      *)
(*                                                                         *)
(* A path string is a tuple of one-character strings, <<"/","a">> being    *)
(* "/a", so that parsing a string into components, cleaning it and         *)
(* printing it back are computed and not assumed.                          *)
(***************************************************************************)
EXTENDS Naturals, Sequences, FiniteSets, TLC

VARIABLES
    \* --- path functions in isolation (SpecPath)
    base,       \* base_dir handed to sanitize_path
    rel,        \* the caller's path string
    pstep,      \* "start" | "sanitized" | "resanitized" | "validated"
    res,        \* result of the call
    res2,       \* result of feeding the tail of res back into sanitize_path
    \* --- file system and host API (SpecHost, Spec)
    fs,         \* physical path -> node
    calls,      \* host API calls made so far
    last,       \* the last host API call and its outcome
    touched,    \* physical paths the host has read, created or modified
    \* --- lifecycle of main (Spec)
    pc,         \* position in main
    recipe,     \* what the recipe file declares
    version,    \* package_info.version: "none" | "some"
    invoked,    \* lifecycle callbacks invoked so far, in order
    exit,       \* <<>> while the process runs, then <<its exit status>>
    stderr,     \* diagnostics written to standard error, in order
    manifest,   \* the lines Finalize wrote to the manifest
    outputs     \* what Finalize has written: manifest, metadata, archive

vars == <<base, rel, pstep, res, res2, fs, calls, last, touched,
          pc, recipe, version, invoked, exit, stderr, manifest, outputs>>

pathVars == <<base, rel, pstep, res, res2>>
hostVars == <<calls, last, touched>>
mainVars == <<recipe, version, invoked, exit, stderr, manifest, outputs>>

-----------------------------------------------------------------------------
(* Bounds of the model *)

\* longest path string enumerated for the path functions
MaxLen == 7

\* characters of the enumerated path strings
Alphabet == {"/", ".", "a"}

Strings == UNION {[1..n -> Alphabet] : n \in 0..MaxLen}

-----------------------------------------------------------------------------
(* std::path on Unix: components of a path string *)

RootDir == <<"/">>
CurDir == <<".">>
ParentDir == <<".", ".">>

\* the segments of s between separators, empty ones included
RECURSIVE SplitAcc(_, _, _)
SplitAcc(s, cur, acc) ==
    IF s = <<>> THEN Append(acc, cur)
    ELSE IF Head(s) = "/" THEN SplitAcc(Tail(s), <<>>, Append(acc, cur))
    ELSE SplitAcc(Tail(s), Append(cur, Head(s)), acc)

Split(s) == SplitAcc(s, <<>>, <<>>)

has_root(s) == Len(s) > 0 /\ s[1] = "/"

RECURSIVE NonEmpty(_)
NonEmpty(segs) ==
    IF segs = <<>> THEN <<>>
    ELSE (IF Head(segs) # <<>> THEN <<Head(segs)>> ELSE <<>>)
         \o NonEmpty(Tail(segs))

RECURSIVE DropCurDir(_)
DropCurDir(segs) ==
    IF segs = <<>> THEN <<>>
    ELSE (IF Head(segs) # CurDir THEN <<Head(segs)>> ELSE <<>>)
         \o DropCurDir(Tail(segs))

\* Path::components(): repeated separators and "." are normalized away,
\* except a "." that starts a path without a root; a root comes first
Components(s) ==
    LET segs == NonEmpty(Split(s))
    IN IF has_root(s) THEN <<RootDir>> \o DropCurDir(segs)
       ELSE IF segs = <<>> THEN <<>>
       ELSE <<Head(segs)>> \o DropCurDir(Tail(segs))

is_absolute(s) == has_root(s)

\* PathBuf::push: an absolute argument replaces the buffer, otherwise a
\* separator is added unless the buffer is empty or ends with one
Push(buf, p) ==
    IF is_absolute(p) THEN p
    ELSE IF buf = <<>> \/ buf[Len(buf)] = "/" THEN buf \o p
    ELSE buf \o <<"/">> \o p

\* Path::join
Join(b, p) == Push(b, p)

RECURSIVE Collect(_, _)
\* components collected into a PathBuf
Collect(buf, comps) ==
    IF comps = <<>> THEN buf
    ELSE Collect(Push(buf, Head(comps)), Tail(comps))

IsPrefixSeq(p, s) == Len(p) <= Len(s) /\ SubSeq(s, 1, Len(p)) = p

\* Path::starts_with: whole components
starts_with(s, b) == IsPrefixSeq(Components(b), Components(s))

\* Path == Path compares components
PathEq(s, t) == Components(s) = Components(t)

NoPath == <<"?">>

\* Path::strip_prefix: the rest of the path, or NoPath when b is no prefix
strip_prefix(s, b) ==
    IF starts_with(s, b)
    THEN Collect(<<>>, SubSeq(Components(s), Len(Components(b)) + 1,
                                             Len(Components(s))))
    ELSE NoPath

\* Path::parent: the path without its last component; NoPath for a root
\* or an empty path
parent(s) ==
    LET cs == Components(s)
    IN IF cs = <<>> \/ cs[Len(cs)] = RootDir THEN NoPath
       ELSE Collect(<<>>, SubSeq(cs, 1, Len(cs) - 1))

-----------------------------------------------------------------------------
(* path_utils.rs *)

Ok(p) == [tag |-> "Ok", path |-> p]
Err(e) == [tag |-> e, path |-> NoPath]

IsNormal(c) == c # RootDir /\ c # CurDir /\ c # ParentDir

RECURSIVE CleanAcc(_, _)
\* PathClean::clean, component by component: "." is dropped; ".." pops a
\* normal component, is dropped right under the root, and is kept otherwise
CleanAcc(comps, out) ==
    IF comps = <<>> THEN out
    ELSE LET c == Head(comps)
             n == Len(out)
         IN IF c = CurDir THEN CleanAcc(Tail(comps), out)
            ELSE IF c = ParentDir
            THEN IF n > 0 /\ out[n] = RootDir
                 THEN CleanAcc(Tail(comps), out)
                 ELSE IF n > 0 /\ IsNormal(out[n])
                 THEN CleanAcc(Tail(comps), SubSeq(out, 1, n - 1))
                 ELSE CleanAcc(Tail(comps), Append(out, c))
            ELSE CleanAcc(Tail(comps), Append(out, c))

\* PathBuf::from(relative_path).clean(): an empty result is "."
clean(s) ==
    LET out == CleanAcc(Components(s), <<>>)
    IN IF out = <<>> THEN <<".">> ELSE Collect(<<>>, out)

\* a plausible slip: only the path ".." itself is seen as climbing
HasParentDir_whole(s) == Components(s) = <<ParentDir>>

\* rel_path.components().any(|c| c.as_os_str() == "..")
HasParentDir(s) == \E i \in 1..Len(Components(s)) : Components(s)[i] = ParentDir

\* the post-join containment check of sanitize_path
Contained(abs_path, base_dir) == starts_with(abs_path, base_dir)

\* a plausible slip: the first component skipped instead of the root
StripRoot_skip_first(rel_path) ==
    Collect(<<>>, Tail(Components(rel_path)))

\* a plausible slip: the root left in place
StripRoot_kept(rel_path) == rel_path

\* Strip leading slash if present
StripRoot(rel_path) ==
    IF strip_prefix(rel_path, <<"/">>) # NoPath
    THEN strip_prefix(rel_path, <<"/">>)
    ELSE rel_path

\* a plausible slip: the cleaned path joined as it is, the result unchecked
sanitize_path_unstripped(base_dir, relative_path) ==
    IF HasParentDir(clean(relative_path)) THEN Err("PathTraversal")
    ELSE Ok(Join(base_dir, clean(relative_path)))

sanitize_path(base_dir, relative_path) ==
    LET rel_path == clean(relative_path)
        stripped == StripRoot(rel_path)
        abs_path == Join(base_dir, stripped)
    IN IF HasParentDir(rel_path) THEN Err("PathTraversal")
       ELSE IF ~Contained(abs_path, base_dir) THEN Err("NotInTargetDir")
       ELSE Ok(abs_path)

-----------------------------------------------------------------------------
(* The file system the program runs on.  A physical path is the tuple of   *)
(* the names from the root down; fs maps each existing one to its node.    *)

\* symbolic links followed in one path resolution before the OS gives up
MaxFollow == 3

DirNode == [kind |-> "dir", target |-> <<>>, data |-> "-"]
FileNode(d) == [kind |-> "file", target |-> <<>>, data |-> d]
LinkNode(t) == [kind |-> "link", target |-> t, data |-> "-"]

\* the names of an absolute path string, below the root
Phys(s) == Tail(Components(s))

Front(p) == IF p = <<>> THEN <<>> ELSE SubSeq(p, 1, Len(p) - 1)

At(st, p) == [st |-> st, path |-> p]

RECURSIVE Walk(_, _, _, _, _)
\* path resolution from the directory cur along the names rest:
\*   found   the path names the existing node .path
\*   absent  the last name does not exist in the existing directory above it
\*   enoent / enotdir / eloop   the errors of the same names
\* follow_last tells whether a symbolic link in the last place is followed
Walk(f, cur, rest, follow_last, fuel) ==
    IF rest = <<>> THEN At("found", cur)
    ELSE LET c == Head(rest)
             r == Tail(rest)
             n == Append(cur, c)
         IN IF f[cur].kind # "dir" THEN At("enotdir", cur)
            ELSE IF c = CurDir THEN Walk(f, cur, r, follow_last, fuel)
            ELSE IF c = ParentDir THEN Walk(f, Front(cur), r, follow_last, fuel)
            ELSE IF n \notin DOMAIN f
            THEN IF r = <<>> THEN At("absent", n) ELSE At("enoent", n)
            ELSE IF f[n].kind = "link" /\ (r # <<>> \/ follow_last)
            THEN IF fuel = 0 THEN At("eloop", n)
                 ELSE Walk(f, <<>>, Phys(f[n].target) \o r, follow_last, fuel - 1)
            ELSE Walk(f, n, r, follow_last, fuel)

\* stat and lstat of an absolute path string
Stat(f, s) == Walk(f, <<>>, Phys(s), TRUE, MaxFollow)
LStat(f, s) == Walk(f, <<>>, Phys(s), FALSE, MaxFollow)

exists(f, s) == Stat(f, s).st = "found"
is_dir(f, s) == Stat(f, s).st = "found" /\ f[Stat(f, s).path].kind = "dir"
is_file(f, s) == Stat(f, s).st = "found" /\ f[Stat(f, s).path].kind = "file"
is_symlink(f, s) == LStat(f, s).st = "found" /\ f[LStat(f, s).path].kind = "link"

\* the result of a file system operation: whether it succeeded, the file
\* system after it, the physical paths it wrote and those it read
Done(ok, f, w, r) == [ok |-> ok, fs |-> f, w |-> w, r |-> r]
Failed(f) == Done(FALSE, f, {}, {})

\* one operation after another; the second runs only if the first succeeded
Then(a, b) == IF a.ok THEN Done(b.ok, b.fs, a.w \cup b.w, a.r \cup b.r) ELSE a

Put(f, p, node) == [q \in DOMAIN f \cup {p} |-> IF q = p THEN node ELSE f[q]]

\* mkdir(2)
mkdir(f, s) ==
    LET at == LStat(f, s)
    IN IF at.st = "absent" THEN Done(TRUE, Put(f, at.path, DirNode), {at.path}, {})
       ELSE Failed(f)

RECURSIVE create_dir_all(_, _)
\* fs::create_dir_all: mkdir, and when a parent is missing, the parents first
create_dir_all(f, s) ==
    IF s = <<>> \/ is_dir(f, s) THEN Done(TRUE, f, {}, {})
    ELSE IF LStat(f, s).st = "absent" THEN mkdir(f, s)
    ELSE IF LStat(f, s).st = "enoent" /\ parent(s) # NoPath
    THEN LET up == create_dir_all(f, parent(s))
         IN Then(up, mkdir(up.fs, s))
    ELSE Failed(f)

\* File::create / fs::write: creates or truncates the file the path leads to
write_file(f, s, d) ==
    LET at == Stat(f, s)
    IN IF at.st = "absent" \/ (at.st = "found" /\ f[at.path].kind = "file")
       THEN Done(TRUE, Put(f, at.path, FileNode(d)), {at.path}, {})
       ELSE Failed(f)

\* File::open / fs::read of a regular file
read_file(f, s) ==
    IF is_file(f, s) THEN Done(TRUE, f, {}, {Stat(f, s).path}) ELSE Failed(f)

DataOf(f, s) == f[Stat(f, s).path].data

\* std::fs::copy: the source must be a regular file
copy_file(f, from, to) ==
    IF is_file(f, from)
    THEN Then(read_file(f, from), write_file(f, to, DataOf(f, from)))
    ELSE Failed(f)

\* a plausible slip: the target's node copied to the link's path
symlink_copying(f, target, link) ==
    LET at == LStat(f, link)
    IN IF at.st = "absent" /\ exists(f, target)
       THEN Done(TRUE, Put(f, at.path, f[Stat(f, target).path]), {at.path}, {})
       ELSE Failed(f)

\* std::os::unix::fs::symlink: the link's own path must not exist
symlink(f, target, link) ==
    LET at == LStat(f, link)
    IN IF at.st = "absent"
       THEN Done(TRUE, Put(f, at.path, LinkNode(target)), {at.path}, {})
       ELSE Failed(f)

\* the names fs::read_dir lists in the directory at the physical path p
Entries(f, p) == {q[Len(q)] : q \in {x \in DOMAIN f : Len(x) = Len(p) + 1
                                                      /\ Front(x) = p}}

\* a plausible slip: the existence check left out
validate_absolute_path_unchecked(f, path) ==
    IF ~is_absolute(path) THEN Err("InvalidPath") ELSE Ok(path)

\* Ensures the path is absolute and exists
validate_absolute_path(f, path) ==
    IF ~is_absolute(path) THEN Err("InvalidPath")
    ELSE IF ~exists(f, path) THEN Err("InvalidPath")
    ELSE Ok(path)

-----------------------------------------------------------------------------
(* file_operations.rs *)

RECURSIVE copy_dir_all(_, _, _)
RECURSIVE CopyEntries(_, _, _, _)

\* one directory entry n of src copied below dst: a directory recursively,
\* anything else with fs::copy
CopyOne(f, src, dst, n) ==
    IF f[Append(Stat(f, src).path, n)].kind = "dir"
    THEN copy_dir_all(f, Join(src, n), Join(dst, n))
    ELSE {copy_file(f, Join(src, n), Join(dst, n))}

\* the entries todo copied in every order read_dir may list them, stopping
\* at the first failure; rs are the possible results so far
CopyEntries(rs, src, dst, todo) ==
    IF todo = {} THEN rs
    ELSE UNION {CopyEntries(
                    UNION {IF r.ok
                           THEN {Then(r, x) : x \in CopyOne(r.fs, src, dst, n)}
                           ELSE {r} : r \in rs},
                    src, dst, todo \ {n}) : n \in todo}

\* Copy a directory recursively: the set of possible results
copy_dir_all(f, src, dst) ==
    LET made == create_dir_all(f, dst)
    IN IF ~made.ok THEN {made}
       ELSE IF ~is_dir(made.fs, src) THEN {Done(FALSE, made.fs, made.w, made.r)}
       ELSE CopyEntries({made}, src, dst, Entries(made.fs, Stat(made.fs, src).path))

ends_with(s, suffix) ==
    Len(suffix) <= Len(s)
    /\ SubSeq(s, Len(s) - Len(suffix) + 1, Len(s)) = suffix

\* a plausible slip: the codec taken from the last extension alone
Codec_by_last_extension(path_str) ==
    IF ends_with(path_str, <<".", "g", "z">>) THEN "gz"
    ELSE IF ends_with(path_str, <<".", "t", "g", "z">>) THEN "gz"
    ELSE IF ends_with(path_str, <<".", "b", "z", "2">>) THEN "bz2"
    ELSE IF ends_with(path_str, <<".", "t", "b", "z", "2">>) THEN "bz2"
    ELSE IF ends_with(path_str, <<".", "x", "z">>) THEN "xz"
    ELSE IF ends_with(path_str, <<".", "t", "x", "z">>) THEN "xz"
    ELSE IF ends_with(path_str, <<".", "z", "s", "t">>) THEN "zst"
    ELSE IF ends_with(path_str, <<".", "t", "z", "s", "t">>) THEN "zst"
    ELSE "tar"

\* the decoder extract_tarball puts in front of the tar reader
Codec(path_str) ==
    IF ends_with(path_str, <<".", "t", "a", "r", ".", "g", "z">>)
       \/ ends_with(path_str, <<".", "t", "g", "z">>) THEN "gz"
    ELSE IF ends_with(path_str, <<".", "t", "a", "r", ".", "b", "z", "2">>)
            \/ ends_with(path_str, <<".", "t", "b", "z", "2">>) THEN "bz2"
    ELSE IF ends_with(path_str, <<".", "t", "a", "r", ".", "x", "z">>)
            \/ ends_with(path_str, <<".", "t", "x", "z">>) THEN "xz"
    ELSE IF ends_with(path_str, <<".", "t", "a", "r", ".", "z", "s", "t">>)
            \/ ends_with(path_str, <<".", "t", "z", "s", "t">>) THEN "zst"
    ELSE IF ends_with(path_str, <<".", "t", "a", "r">>) THEN "tar"
    ELSE "tar"

\* the one member of every archive of the model: a regular file
ArchiveEntry == <<"x">>

\* Archive::unpack of that member below dest: an existing file or link of
\* its name is replaced, a directory of its name is an error
unpack(f, dest) ==
    LET at == LStat(f, Join(dest, ArchiveEntry))
    IN IF at.st = "absent" \/ (at.st = "found" /\ f[at.path].kind # "dir")
       THEN Done(TRUE, Put(f, at.path, FileNode("text")), {at.path}, {})
       ELSE Failed(f)

\* Function to detect compression type and extract tarball
extract_tarball(f, src_path, dest_path) ==
    IF ~exists(f, src_path) THEN Failed(f)
    ELSE LET opened == Done(TRUE, f, {}, {Stat(f, src_path).path})
             made == Then(opened, create_dir_all(f, dest_path))
         IN IF ~made.ok THEN made
            ELSE IF is_file(f, src_path) /\ DataOf(f, src_path) = Codec(src_path)
            THEN Then(made, unpack(made.fs, dest_path))
            ELSE Done(FALSE, made.fs, made.w, made.r)

\* what a host function hands back to the recipe: "Ok", the error it
\* raises, or "panic" when it unwinds instead of returning
Ret(out, d) == [out |-> out, fs |-> d.fs, w |-> d.w, r |-> d.r]
RetIo(d) == Ret(IF d.ok THEN "Ok" ELSE "IoError", d)

\* Download a file to a specific directory (blocking version)
download_file_blocking(f, net_ok, data, dest_dir, filename) ==
    LET made == create_dir_all(f, dest_dir)
        dest_path == sanitize_path(dest_dir, filename)
    IN IF ~made.ok THEN RetIo(made)
       ELSE IF dest_path.tag # "Ok" THEN Ret(dest_path.tag, made)
       ELSE IF ~net_ok THEN Ret("NetError", made)
       ELSE RetIo(Then(made, write_file(made.fs, dest_path.path, data)))

-----------------------------------------------------------------------------
(* lua_functions.rs: the functions registered for the recipe, bound to     *)
(* src_dir and pkg_dir.  Each yields the set of its possible results.       *)

working_dir == <<"/", "w">>
src_dir == Join(working_dir, <<"s">>)
pkg_dir == Join(working_dir, <<"p">>)

Same(f) == Done(TRUE, f, {}, {})

\* create_dir_all of the parent, when the path has one
MakeParent(f, abs_path) ==
    IF parent(abs_path) # NoPath THEN create_dir_all(f, parent(abs_path))
    ELSE Same(f)

\* the same, guarded by `if !parent.exists()`
MakeParentIfMissing(f, abs_path) ==
    IF parent(abs_path) # NoPath /\ ~exists(f, parent(abs_path))
    THEN create_dir_all(f, parent(abs_path))
    ELSE Same(f)

download_function(f, net_ok, data, dest) ==
    {download_file_blocking(f, net_ok, data, src_dir, dest)}

file_load_function(f, path) ==
    LET abs_path == sanitize_path(src_dir, path)
    IN IF abs_path.tag # "Ok" THEN {Ret(abs_path.tag, Same(f))}
       ELSE {RetIo(read_file(f, abs_path.path))}

file_save_function(f, path) ==
    LET abs_path == sanitize_path(src_dir, path)
        made == MakeParent(f, abs_path.path)
    IN IF abs_path.tag # "Ok" THEN {Ret(abs_path.tag, Same(f))}
       ELSE {RetIo(Then(made, write_file(made.fs, abs_path.path, "text")))}

sha256sum_file_function(f, path) ==
    LET abs_path == sanitize_path(src_dir, path)
    IN IF abs_path.tag # "Ok" THEN {Ret(abs_path.tag, Same(f))}
       ELSE {RetIo(read_file(f, abs_path.path))}

unpack_tarball_function(f, path, dest) ==
    LET abs_path == sanitize_path(src_dir, path)
        abs_dest == validate_absolute_path(f, dest)
    IN IF abs_path.tag # "Ok" THEN {Ret(abs_path.tag, Same(f))}
       ELSE IF abs_dest.tag # "Ok" THEN {Ret(abs_dest.tag, Same(f))}
       ELSE {RetIo(extract_tarball(f, abs_path.path, abs_dest.path))}

copy_function(f, src, dest) ==
    LET abs_src == sanitize_path(src_dir, src)
        abs_dest == sanitize_path(pkg_dir, dest)
        made == MakeParentIfMissing(f, abs_dest.path)
    IN IF abs_src.tag # "Ok" THEN {Ret(abs_src.tag, Same(f))}
       ELSE IF abs_dest.tag # "Ok" THEN {Ret(abs_dest.tag, Same(f))}
       ELSE IF is_file(f, abs_src.path)
       THEN {RetIo(Then(made, copy_file(made.fs, abs_src.path, abs_dest.path)))}
       ELSE IF is_dir(f, abs_src.path)
       THEN {RetIo(d) : d \in copy_dir_all(f, abs_src.path, abs_dest.path)}
       ELSE {Ret("RuntimeError", Same(f))}

\* a plausible slip: the parent directories made before the target is
\* validated
link_function_eager(f, target, link_path) ==
    LET abs_target == validate_absolute_path(f, target)
        abs_link == sanitize_path(pkg_dir, link_path)
        made == MakeParent(f, abs_link.path)
    IN IF abs_link.tag # "Ok" THEN {Ret(abs_link.tag, Same(f))}
       ELSE IF abs_target.tag # "Ok" THEN {Ret(abs_target.tag, made)}
       ELSE {RetIo(Then(made, symlink(made.fs, abs_target.path, abs_link.path)))}

link_function(f, target, link_path) ==
    LET abs_target == validate_absolute_path(f, target)
        abs_link == sanitize_path(pkg_dir, link_path)
        made == MakeParent(f, abs_link.path)
    IN IF abs_target.tag # "Ok" THEN {Ret(abs_target.tag, Same(f))}
       ELSE IF abs_link.tag # "Ok" THEN {Ret(abs_link.tag, Same(f))}
       ELSE {RetIo(Then(made, symlink(made.fs, abs_target.path, abs_link.path)))}

\* the directory a repository keeps its data in
DotGit == <<".", "g", "i", "t">>

\* git2::Repository::clone: into a path that is absent or an empty
\* directory; leaves a work tree holding the repository directory
repository_clone(f, net_ok, path) ==
    LET at == Stat(f, path)
        empty == at.st = "found" /\ f[at.path].kind = "dir"
                 /\ Entries(f, at.path) = {}
        tree == Put(f, at.path, DirNode)
    IN IF net_ok /\ (at.st = "absent" \/ empty)
       THEN Done(TRUE, Put(tree, Append(at.path, DotGit), DirNode),
                 {at.path, Append(at.path, DotGit)}, {})
       ELSE Failed(f)

\* git2::Repository::open: the path must hold a repository directory
repository_open(f, path) ==
    IF is_dir(f, Join(path, DotGit))
    THEN Done(TRUE, f, {}, {Stat(f, Join(path, DotGit)).path})
    ELSE Failed(f)

\* an absent dest is "."; sanitize_path(..).unwrap() unwinds on an error
git_clone_function(f, net_ok, dest) ==
    LET abs_dest == sanitize_path(src_dir, dest)
        made == MakeParentIfMissing(f, abs_dest.path)
    IN IF abs_dest.tag # "Ok" THEN {Ret("panic", Same(f))}
       ELSE {RetIo(Then(made, repository_clone(made.fs, net_ok, abs_dest.path)))}

git_load_function(f, repo) ==
    LET abs_repo == sanitize_path(src_dir, repo)
    IN IF abs_repo.tag # "Ok" THEN {Ret("panic", Same(f))}
       ELSE {RetIo(repository_open(f, abs_repo.path))}

-----------------------------------------------------------------------------
(* The values the variables of a part hold while another part runs *)

None == [tag |-> "None", path |-> NoPath]
NoCall == [op |-> "none", args |-> <<>>, out |-> "none"]
NoRecipe == [file |-> FALSE]

IdlePath ==
    /\ base = <<>> /\ rel = <<>> /\ pstep = "idle" /\ res = None /\ res2 = None

IdleHost == calls = 0 /\ last = NoCall /\ touched = {}

IdleMain ==
    /\ recipe = NoRecipe /\ version = "none" /\ invoked = <<>>
    /\ exit = <<>> /\ stderr = <<>> /\ manifest = {} /\ outputs = {}

-----------------------------------------------------------------------------
(* SpecPath: sanitize_path and validate_absolute_path on every string *)

Bases == {src_dir, pkg_dir}

\* a disk for validate_absolute_path: a directory /a holding a file a and
\* a symbolic link .a to /a, and a link /.. cannot name
PathDisk ==
    (<<>> :> DirNode)
    @@ (<< <<"a">> >> :> DirNode)
    @@ (<< <<"a">>, <<"a">> >> :> FileNode("text"))
    @@ (<< <<"a">>, <<".", "a">> >> :> LinkNode(<<"/", "a">>))

EmptyDisk == (<<>> :> DirNode)

InitPath ==
    /\ base \in Bases
    /\ rel \in Strings
    /\ pstep = "start"
    /\ res = None /\ res2 = None
    /\ fs \in {PathDisk, EmptyDisk}
    /\ pc = "path"
    /\ IdleHost /\ IdleMain

\* a call sanitize_path(base, rel)
Sanitize ==
    /\ pstep = "start"
    /\ res' = sanitize_path(base, rel)
    /\ pstep' = "sanitized"
    /\ UNCHANGED <<base, rel, res2, fs, pc, hostVars, mainVars>>

\* the part of the returned path after base, handed to sanitize_path again
Resanitize ==
    /\ pstep = "sanitized"
    /\ res.tag = "Ok"
    /\ res2' = sanitize_path(base, strip_prefix(res.path, base))
    /\ pstep' = "resanitized"
    /\ UNCHANGED <<base, rel, res, fs, pc, hostVars, mainVars>>

\* a call validate_absolute_path(rel)
Validate ==
    /\ pstep = "start"
    /\ res' = validate_absolute_path(fs, rel)
    /\ pstep' = "validated"
    /\ UNCHANGED <<base, rel, res2, fs, pc, hostVars, mainVars>>

NextPath == Sanitize \/ Resanitize \/ Validate

SpecPath == InitPath /\ [][NextPath]_vars

-----------------------------------------------------------------------------
(* SpecHost: the recipe calling the host functions, in any order *)

\* host calls in one run
MaxCalls == 2

\* the lifecycle callbacks, in the order main runs them
Callbacks == <<"SOURCES", "VERSION", "PREPARE", "PACKAGE">>

\* pc while recipe code runs: "host" is recipe code on its own, a callback
\* name is main waiting for that callback to return
Running == {"host"} \cup {Callbacks[i] : i \in 1..Len(Callbacks)}

\* paths the recipe of the model passes to the host functions
A == <<"a">>                       \* a name
D == <<"d">>                       \* another, used for directories
DA == <<"d", "/", "a">>            \* a name below a directory
UpA == <<".", ".", "/", "a">>      \* a path that climbs
L == <<"l">>                       \* the name used for links
LA == <<"l", "/", "a">>            \* a name below it
SlashO == <<"/", "o">>             \* a directory outside both roots
SlashN == <<"/", "n">>             \* an absolute path that does not exist

\* destinations of writes below a root
WriteArgs == {A, DA, UpA, LA, SlashO}

\* sources of reads below the source root
ReadArgs == {A, D, UpA}

\* where a recipe puts links
LinkArgs == {L, DA, UpA}

\* the absolute paths a recipe passes, with a relative one
AbsArgs == {SlashO, pkg_dir, A, SlashN}

\* what a download may deliver
DownloadData == {"tar", "text"}

\* a download fails, or delivers one of these
Fetches == {[net_ok |-> FALSE, data |-> "-"]}
           \cup {[net_ok |-> TRUE, data |-> d] : d \in DownloadData}

\* main has created src and pkg below the working directory; /o is a
\* directory of the system outside both
FreshDisk ==
    (<<>> :> DirNode)
    @@ (Phys(working_dir) :> DirNode)
    @@ (Phys(src_dir) :> DirNode)
    @@ (Phys(pkg_dir) :> DirNode)
    @@ (<< <<"o">> >> :> DirNode)

\* src is kept between runs: an archive fetched by an earlier run
UsedDisk == Put(FreshDisk, Append(Phys(src_dir), <<"a">>), FileNode("tar"))

\* src and pkg as a build that saved d/a, copied d and linked l left them
KeptDisk ==
    Put(Put(Put(Put(Put(UsedDisk,
        Append(Phys(src_dir), D), DirNode),
        Phys(Join(src_dir, DA)), FileNode("text")),
        Append(Phys(pkg_dir), D), DirNode),
        Phys(Join(pkg_dir, DA)), FileNode("text")),
        Append(Phys(pkg_dir), L), LinkNode(SlashO))

InitHost ==
    /\ fs \in {FreshDisk, UsedDisk, KeptDisk}
    /\ calls = 0 /\ last = NoCall /\ touched = {}
    /\ pc = "host"
    /\ IdlePath /\ IdleMain

Touch(how, ps) == {[how |-> how, path |-> q] : q \in ps}

\* the host function op(args) returns r to the recipe
Return(op, args, r) ==
    /\ fs' = r.fs
    /\ calls' = calls + 1
    /\ last' = [op |-> op, args |-> args, out |-> r.out]
    /\ touched' = touched \cup Touch("write", r.w) \cup Touch("read", r.r)
    /\ UNCHANGED <<pathVars, pc, mainVars>>

CanCall == pc \in Running /\ calls < MaxCalls

Download(dests) ==
    /\ CanCall
    /\ \E dest \in dests, got \in Fetches :
         \E r \in download_function(fs, got.net_ok, got.data, dest) :
            Return("download", <<dest>>, r)

FileLoad(paths) ==
    /\ CanCall
    /\ \E path \in paths : \E r \in file_load_function(fs, path) :
            Return("file_load", <<path>>, r)

FileSave(paths) ==
    /\ CanCall
    /\ \E path \in paths : \E r \in file_save_function(fs, path) :
            Return("file_save", <<path>>, r)

Sha256sumFile(paths) ==
    /\ CanCall
    /\ \E path \in paths : \E r \in sha256sum_file_function(fs, path) :
            Return("sha256sum_file", <<path>>, r)

UnpackTarball(paths, dests) ==
    /\ CanCall
    /\ \E path \in paths, dest \in dests :
         \E r \in unpack_tarball_function(fs, path, dest) :
            Return("unpack_tarball", <<path, dest>>, r)

Copy(srcs, dests) ==
    /\ CanCall
    /\ \E src \in srcs, dest \in dests : \E r \in copy_function(fs, src, dest) :
            Return("copy", <<src, dest>>, r)

Link(targets, link_paths) ==
    /\ CanCall
    /\ \E target \in targets, link_path \in link_paths :
         \E r \in link_function(fs, target, link_path) :
            Return("link", <<target, link_path>>, r)

GitClone(dests) ==
    /\ CanCall
    /\ \E dest \in dests \cup {<<".">>}, net_ok \in BOOLEAN :
         \E r \in git_clone_function(fs, net_ok, dest) :
            Return("git.clone", <<dest>>, r)

GitLoad(paths) ==
    /\ CanCall
    /\ \E repo \in paths : \E r \in git_load_function(fs, repo) :
            Return("git.load", <<repo>>, r)

NextHost ==
    \/ Download(WriteArgs)
    \/ FileLoad(ReadArgs)
    \/ FileSave(WriteArgs)
    \/ Sha256sumFile(ReadArgs)
    \/ UnpackTarball(ReadArgs, AbsArgs)
    \/ Copy(ReadArgs, WriteArgs)
    \/ Link(AbsArgs, LinkArgs)
    \/ GitClone({D, UpA})
    \/ GitLoad(ReadArgs)

SpecHost == InitHost /\ [][NextHost]_vars

-----------------------------------------------------------------------------
(* SpecTar: extract_tarball on archives of every name and content *)

\* what an archive file may hold: a tar stream in one of the encodings
\* (the plain stream is "tar"), or something that is no archive
Contents == {"gz", "bz2", "xz", "zst", "tar", "text"}

\* the pieces file names of the model are made of
Extensions ==
    {<<>>, <<".", "t", "a", "r">>,
     <<".", "g", "z">>,
     <<".", "t", "g", "z">>,
     <<".", "b", "z", "2">>,
     <<".", "t", "b", "z", "2">>,
     <<".", "x", "z">>,
     <<".", "t", "x", "z">>,
     <<".", "z", "s", "t">>,
     <<".", "t", "z", "s", "t">>,
     <<".", "z", "i", "p">>,
     <<".", "T", "G", "Z">>,
     <<"t", "a", "r">>}

\* a stem or none, then up to two pieces
TarNames ==
    {s \o e1 \o e2 : s \in {<<>>, <<"a">>}, e1 \in Extensions, e2 \in Extensions}
    \ {<<>>}

\* the directory the archives are extracted into
TarDest == Join(src_dir, <<"u">>)

\* src holds the one file name with the content c
TarDisk(name, c) == Put(FreshDisk, Phys(Join(src_dir, name)), FileNode(c))

InitTar ==
    /\ rel \in TarNames
    /\ fs \in {TarDisk(rel, c) : c \in Contents}
    /\ pc = "tar"
    /\ base = <<>> /\ pstep = "idle" /\ res = None /\ res2 = None
    /\ IdleHost /\ IdleMain

\* a call extract_tarball(src/rel, TarDest)
ExtractTarball ==
    /\ pc = "tar"
    /\ calls = 0
    /\ Return("extract_tarball", <<rel>>,
              RetIo(extract_tarball(fs, Join(src_dir, rel), TarDest)))

NextTar == ExtractTarball

SpecTar == InitTar /\ [][NextTar]_vars

-----------------------------------------------------------------------------
(* main.rs: the recipe, its metadata and the lifecycle *)

\* required fields a recipe of the model may leave out
MaxMissing == 1

\* the required keys of INFO, in the order lua_get_package_info reads them
RequiredFields ==
    <<"name", "description", "url", "license", "dev", "provides", "arch",
      "maintainers">>

FieldSet == {RequiredFields[i] : i \in 1..Len(RequiredFields)}
CallbackSet == {Callbacks[i] : i \in 1..Len(Callbacks)}

\* a recipe and the run's inputs:
\*   file     the recipe file exists
\*   evals    its body runs without error
\*   info     it sets the global INFO to a table
\*   missing  the required keys INFO lacks
\*   vfield   INFO.version: "absent", a "string", or an "other" value
\*   defined  the lifecycle globals it sets to functions
\*   arch_ok  INFO.arch lists the host architecture
Recipes ==
    {r \in [file : BOOLEAN, evals : BOOLEAN, info : BOOLEAN,
            missing : SUBSET FieldSet, vfield : {"absent", "string", "other"},
            defined : SUBSET CallbackSet, arch_ok : BOOLEAN] :
        /\ Cardinality(r.missing) <= MaxMissing
        \* what is never read is left at one value
        /\ ~r.file => ~r.evals
        /\ ~r.evals => ~r.info /\ r.defined = {}
        /\ ~r.info => (r.missing = {} /\ r.vfield = "absent" /\ ~r.arch_ok)}

\* Table::get::<V>(key) of an absent key: a nil converts to bool (false),
\* not to String or Table
GetField(r, field) == field \notin r.missing \/ field = "dev"

\* the first required key whose read fails, or 0
RECURSIVE FirstFailing(_, _)
FirstFailing(r, i) ==
    IF i > Len(RequiredFields) THEN 0
    ELSE IF ~GetField(r, RequiredFields[i]) THEN i
    ELSE FirstFailing(r, i + 1)

\* lua_get_package_info: Err(message), or Ok with package_info.version,
\* which is Some only for a value that converts to String
lua_get_package_info(r) ==
    IF ~r.info THEN [ok |-> FALSE, msg |-> "INFO table missing", version |-> "none"]
    ELSE IF FirstFailing(r, 1) # 0
    THEN [ok |-> FALSE, msg |-> RequiredFields[FirstFailing(r, 1)],
          version |-> "none"]
    ELSE [ok |-> TRUE, msg |-> "",
          version |-> IF r.vfield = "string" THEN "some" ELSE "none"]

\* lua.globals().get::<Value>("VERSION").is_ok(): reading a global as a
\* Value succeeds whether or not the global is set
version_function_exists(r) == TRUE

\* globals.get::<Function>(function_name) in run_function
FunctionFound(r, function_name) == function_name \in r.defined

\* the process ends: a diagnostic on standard error, then the exit status
Exit(status, diagnostic) ==
    /\ exit' = <<status>>
    /\ stderr' = Append(stderr, diagnostic)
    /\ pc' = "exited"

\* process::exit(1) after eprintln!
Fatal(diagnostic) == Exit(1, diagnostic)

\* a failed unwrap(): the panic message, then the runtime's exit status
Panic(diagnostic) == Exit(101, diagnostic)

Pkgfiles == <<".", "p", "k", "g", "f", "i", "l", "e", "s">>
PackageJson == <<"p", "a", "c", "k", "a", "g", "e", ".", "j", "s", "o", "n">>
\* <name>-<version>-<arch>.tar.gz for the one package of the model
Tarball == <<"n", "-", "1", "-", "x", ".", "t", "a", "r", ".", "g", "z">>

RECURSIVE visit_dirs(_, _)
\* the paths visit_dirs pushes for dir: every entry that is a file or a
\* symbolic link, and the same for every entry that is a directory
visit_dirs(f, dir) ==
    IF ~is_dir(f, dir) THEN {}
    ELSE UNION {
        (IF is_file(f, Join(dir, n)) \/ is_symlink(f, Join(dir, n))
         THEN {Join(dir, n)} ELSE {})
        \cup (IF is_dir(f, Join(dir, n)) THEN visit_dirs(f, Join(dir, n)) ELSE {})
        : n \in Entries(f, Stat(f, dir).path)}

\* a line of the manifest: "/" and the path below the package root
ManifestLine(file) == <<"/">> \o strip_prefix(file, pkg_dir)

\* fs::remove_dir_all: the directory and all below it, links not followed
remove_dir_all(f, dir) ==
    [q \in {x \in DOMAIN f : ~IsPrefixSeq(Phys(dir), x)} |-> f[q]]

\* fs::create_dir of src and pkg when they do not exist
MakeRoots(f) ==
    LET f1 == IF exists(f, src_dir) THEN f ELSE mkdir(f, src_dir).fs
    IN IF exists(f1, pkg_dir) THEN f1 ELSE mkdir(f1, pkg_dir).fs

\* the project directory before the first build
BareDisk ==
    (<<>> :> DirNode)
    @@ (Phys(working_dir) :> DirNode)
    @@ (<< <<"o">> >> :> DirNode)

Init ==
    /\ pc = "start"
    /\ recipe \in Recipes
    /\ version = "none" /\ invoked = <<>>
    /\ exit = <<>> /\ stderr = <<>> /\ manifest = {} /\ outputs = {}
    /\ fs \in {BareDisk, UsedDisk}
    /\ IdlePath /\ IdleHost

\* main up to chunk.exec(): the recipe is located, src and pkg are made,
\* the host functions are registered and the recipe body is run
Load ==
    /\ pc = "start"
    /\ IF ~recipe.file
       THEN Panic("canonicalize") /\ fs' = fs
       ELSE /\ fs' = MakeRoots(fs)
            /\ IF ~recipe.evals
               THEN Panic("chunk.exec")
               ELSE pc' = "loaded" /\ UNCHANGED <<exit, stderr>>
    /\ UNCHANGED <<pathVars, hostVars, recipe, version, invoked, manifest, outputs>>

\* lua_get_package_info(&lua).unwrap() and the two version checks
ValidateMetadata ==
    /\ pc = "loaded"
    /\ LET package_info == lua_get_package_info(recipe)
       IN IF ~package_info.ok
          THEN Panic(package_info.msg) /\ UNCHANGED version
          ELSE /\ version' = package_info.version
               /\ IF package_info.version = "none"
                     /\ ~version_function_exists(recipe)
                  THEN Fatal("version field missing and VERSION function not found")
                  ELSE IF package_info.version = "some"
                          /\ version_function_exists(recipe)
                  THEN Fatal("version field and VERSION function both found")
                  ELSE pc' = "validated" /\ UNCHANGED <<exit, stderr>>
    /\ UNCHANGED <<pathVars, fs, hostVars, recipe, invoked, manifest, outputs>>

\* run_function up to function.call: a global that is no function is fatal
run_function(function_name) ==
    /\ IF FunctionFound(recipe, function_name)
       THEN /\ pc' = function_name
            /\ invoked' = Append(invoked, [name |-> function_name, out |-> "running"])
            /\ UNCHANGED <<exit, stderr>>
       ELSE Fatal("Function not found") /\ UNCHANGED invoked
    /\ UNCHANGED <<pathVars, fs, hostVars, recipe, version, manifest, outputs>>

SetOut(out) == [invoked EXCEPT ![Len(invoked)].out = out]

\* a plausible slip: the callback's error is dropped, as in
\* run_function_if_exists, and main goes on
Returns_ignoring_error(function_name, after) ==
    /\ pc = function_name
    /\ \E out \in {"ok", "error"} :
         /\ invoked' = SetOut(out)
         /\ pc' = after
    /\ UNCHANGED <<pathVars, fs, hostVars, recipe, version, exit, stderr,
                   manifest, outputs>>

\* run_function::<()> from function.call on: the callback returns to main
\* normally or with an error; the error is fatal
Returns(function_name, after) ==
    /\ pc = function_name
    /\ \E out \in {"ok", "error"} :
         /\ invoked' = SetOut(out)
         /\ IF out = "ok" THEN pc' = after /\ UNCHANGED <<exit, stderr>>
            ELSE Fatal("Error")
    /\ UNCHANGED <<pathVars, fs, hostVars, recipe, version, manifest, outputs>>

CallSources == pc = "validated" /\ run_function("SOURCES")

SourcesReturns == Returns("SOURCES", "sourced")

\* if package_info.version.is_none() { ... run_function(&lua, "VERSION", ()) }
ResolveVersion ==
    /\ pc = "sourced"
    /\ IF version = "none" THEN run_function("VERSION")
       ELSE pc' = "versioned" /\ UNCHANGED <<pathVars, fs, hostVars, mainVars>>

\* run_function::<Option<String>>: VERSION returns a string, returns nil
\* (None), or fails; a value that is neither converts with an error
VersionReturns ==
    /\ pc = "VERSION"
    /\ \E out \in {"string", "nil", "error"} :
         /\ invoked' = SetOut(IF out = "error" THEN "error" ELSE "ok")
         /\ IF out = "error" THEN Fatal("Error") /\ UNCHANGED version
            ELSE /\ version' = (IF out = "string" THEN "some" ELSE "none")
                 /\ pc' = "versioned"
                 /\ UNCHANGED <<exit, stderr>>
    /\ UNCHANGED <<pathVars, fs, hostVars, recipe, manifest, outputs>>

\* the summary line, which unwraps the version, and the architecture check
ArchitectureGate ==
    /\ pc = "versioned"
    /\ IF version = "none" THEN Panic("version.unwrap")
       ELSE IF ~recipe.arch_ok
       THEN Fatal("package not available for host architecture")
       ELSE pc' = "gated" /\ UNCHANGED <<exit, stderr>>
    /\ UNCHANGED <<pathVars, fs, hostVars, recipe, version, invoked, manifest, outputs>>

CallPrepare == pc = "gated" /\ run_function("PREPARE")

PrepareReturns == Returns("PREPARE", "prepared")

CallPackage == pc = "prepared" /\ run_function("PACKAGE")

PackageReturns == Returns("PACKAGE", "packaged")

\* main from visit_dirs to its end: the manifest, the metadata file, the
\* archive made by tar, and the removal of src and pkg when asked
Finalize ==
    /\ pc = "packaged"
    /\ LET find_result == visit_dirs(fs, pkg_dir)
           lines == {ManifestLine(file) : file \in find_result}
           listed == write_file(fs, Join(pkg_dir, Pkgfiles), "text")
           described == write_file(listed.fs, Join(pkg_dir, PackageJson), "text")
       IN IF ~listed.ok
          THEN Panic("fs::write") /\ UNCHANGED <<fs, manifest, outputs>>
          ELSE IF ~described.ok
          THEN /\ Panic("fs::write")
               /\ fs' = listed.fs /\ manifest' = lines /\ outputs' = {"manifest"}
          ELSE \E tar_ok, clean_project_after \in BOOLEAN :
                 LET packed == write_file(described.fs,
                                          Join(working_dir, Tarball), "gz")
                 IN /\ manifest' = lines
                    /\ IF ~tar_ok \/ ~packed.ok
                       THEN /\ Fatal("tar")
                            /\ fs' = described.fs
                            /\ outputs' = {"manifest", "metadata"}
                       ELSE /\ outputs' = {"manifest", "metadata", "archive"}
                            /\ fs' = (IF clean_project_after
                                      THEN remove_dir_all(
                                              remove_dir_all(packed.fs, src_dir),
                                              pkg_dir)
                                      ELSE packed.fs)
                            /\ exit' = <<0>> /\ pc' = "exited"
                            /\ UNCHANGED stderr
    /\ UNCHANGED <<pathVars, hostVars, recipe, version, invoked>>

\* main's steps, and the host functions a running callback calls
Next ==
    \/ Load
    \/ ValidateMetadata
    \/ CallSources
    \/ SourcesReturns
    \/ ResolveVersion
    \/ VersionReturns
    \/ ArchitectureGate
    \/ CallPrepare
    \/ PrepareReturns
    \/ CallPackage
    \/ PackageReturns
    \/ Finalize
    \/ FileSave({A})
    \/ Copy({A}, {A, DA})
    \/ Link({SlashO, pkg_dir}, {L})

Spec == Init /\ [][Next]_vars

-----------------------------------------------------------------------------
(* Properties of the path functions, checked under SpecPath *)

RECURSIVE Rewrite(_)
\* lexical normalization by rewriting, whatever the order: a "." goes, a
\* name followed by ".." goes with it, a ".." right under the root goes
Rewrite(cs) ==
    IF \E i \in 1..Len(cs) : cs[i] = CurDir
    THEN LET i == CHOOSE i \in 1..Len(cs) : cs[i] = CurDir
         IN Rewrite(SubSeq(cs, 1, i - 1) \o SubSeq(cs, i + 1, Len(cs)))
    ELSE IF \E i \in 2..Len(cs) : cs[i] = ParentDir /\ IsNormal(cs[i - 1])
    THEN LET i == CHOOSE i \in 2..Len(cs) :
                      cs[i] = ParentDir /\ IsNormal(cs[i - 1])
         IN Rewrite(SubSeq(cs, 1, i - 2) \o SubSeq(cs, i + 1, Len(cs)))
    ELSE IF \E i \in 2..Len(cs) : cs[i] = ParentDir /\ cs[i - 1] = RootDir
    THEN LET i == CHOOSE i \in 2..Len(cs) :
                      cs[i] = ParentDir /\ cs[i - 1] = RootDir
         IN Rewrite(SubSeq(cs, 1, i - 1) \o SubSeq(cs, i + 1, Len(cs)))
    ELSE cs

\* the normal form of a path string: its root, if any, and its segments
Normalized(s) ==
    Rewrite((IF s # <<>> /\ s[1] = "/" THEN <<RootDir>> ELSE <<>>)
            \o NonEmpty(Split(s)))

\* the normal form still climbs
StillClimbs(s) == \E i \in 1..Len(Normalized(s)) : Normalized(s)[i] = ParentDir

\* the normal form below its root
Below(s) ==
    IF Normalized(s) # <<>> /\ Head(Normalized(s)) = RootDir
    THEN Tail(Normalized(s)) ELSE Normalized(s)

\* q is b, or b followed by a separator and more
LexPrefix(b, q) ==
    /\ IsPrefixSeq(b, q)
    /\ Len(q) > Len(b) => q[Len(b) + 1] = "/"

\* C1: whenever the lexical normalization of the input still contains a
\* ".." component, sanitize_path returns PathTraversal and no path.
C1_TraversalRejected ==
    (pstep = "sanitized" /\ StillClimbs(rel)) => res = Err("PathTraversal")

C1_Witness ==
    /\ pstep = "sanitized"
    /\ rel = <<"a", "/", ".", ".", "/", ".", ".">>
    /\ res = Err("PathTraversal")

\* C2: every call that does not fail with PathTraversal returns a path that
\* has base as a lexical prefix and continues with the normalized input,
\* its root separator stripped; nothing after base climbs out of it.
C2_ConfinedToBase ==
    (pstep = "sanitized" /\ res.tag # "PathTraversal") =>
        /\ res.tag = "Ok"
        /\ LexPrefix(base, res.path)
        /\ Components(res.path) = Components(base) \o Below(rel)
        /\ \A i \in 1..Len(Below(rel)) : Below(rel)[i] # ParentDir

C2_Witness ==
    /\ pstep = "sanitized"
    /\ rel = <<"/", "a", "/", ".", ".", "/", "a">>
    /\ res = Ok(base \o <<"/", "a">>)

\* C3: feeding the part of a returned path after base back into
\* sanitize_path returns the same path (paths compare by components).
C3_Idempotent ==
    pstep = "resanitized" => (res2.tag = "Ok" /\ PathEq(res2.path, res.path))

C3_Witness ==
    /\ pstep = "resanitized"
    /\ rel = <<"/", "a", "/", "/", "a">>
    /\ strip_prefix(res.path, base) = <<"a", "/", "a">>
    /\ res2 = res

\* C4: validate_absolute_path fails with InvalidPath for a relative path and
\* for an absolute path that does not exist, and returns an existing
\* absolute path unchanged, wherever it lies.
C4_ValidateAbsolute ==
    pstep = "validated" =>
        IF rel # <<>> /\ rel[1] = "/" /\ Stat(fs, rel).st = "found"
        THEN res = Ok(rel)
        ELSE res = Err("InvalidPath")

C4_Witness ==
    /\ pstep = "validated"
    /\ rel = <<"/", "a", "/", ".", "a", "/", "a">>
    /\ ~starts_with(rel, src_dir) /\ ~starts_with(rel, pkg_dir)
    /\ res = Ok(rel)

-----------------------------------------------------------------------------
(* Properties of the host functions, checked under SpecHost *)

Under(root, p) == IsPrefixSeq(Phys(root), p)

\* C5: whatever host functions the recipe calls, with whatever arguments,
\* every path the host has read, created or modified lies in the source
\* root or in the package root.
C5_ConfinedToRoots ==
    \A t \in touched : Under(src_dir, t.path) \/ Under(pkg_dir, t.path)

-----------------------------------------------------------------------------
(* Properties of the lifecycle, checked under Spec *)

Names == [i \in 1..Len(invoked) |-> invoked[i].name]
Invoked(name) == \E i \in 1..Len(invoked) : invoked[i].name = name

\* the recipe's metadata table is complete but for the version
MetadataRead == recipe.file /\ recipe.evals /\ recipe.info /\ recipe.missing = {}

DeclaresLiteral == recipe.vfield = "string"
DeclaresCallback == "VERSION" \in recipe.defined

\* main has made the version checks
VersionChecked == pc \notin {"start", "loaded"}

\* main ended in one of the two version checks
VersionRejected ==
    /\ exit = <<1>>
    /\ stderr # <<>>
    /\ stderr[Len(stderr)] \in
         {"version field missing and VERSION function not found",
          "version field and VERSION function both found"}

\* C6: a recipe is rejected by the version check when it declares both a
\* literal version and a VERSION callback or neither, and passes it when it
\* declares exactly one of them.
C6_VersionXor ==
    (MetadataRead /\ VersionChecked) =>
        (VersionRejected <=> (DeclaresLiteral <=> DeclaresCallback))

Prefixes(seq) == {SubSeq(seq, 1, n) : n \in 0..Len(seq)}

\* C7: the callbacks are invoked at most once each, in the order SOURCES,
\* VERSION (only without a literal version), PREPARE, PACKAGE, each only
\* after the one before returned without error; a missing SOURCES, PREPARE
\* or PACKAGE stops the build at its stage; Finalize writes only after all
\* of them succeeded, and a callback error ends the build with nothing
\* written.
C7_LifecycleOrder ==
    /\ Names \in Prefixes(<<"SOURCES", "VERSION", "PREPARE", "PACKAGE">>)
                 \cup Prefixes(<<"SOURCES", "PREPARE", "PACKAGE">>)
    /\ Invoked("VERSION") => ~DeclaresLiteral
    /\ \A i \in 1..Len(invoked) :
         /\ i < Len(invoked) => invoked[i].out = "ok"
         /\ invoked[i].out = "running" => pc = invoked[i].name
         /\ invoked[i].out = "error" =>
               (pc = "exited" /\ exit # <<0>> /\ outputs = {})
    /\ Invoked("PREPARE") => (recipe.arch_ok /\ version = "some")
    /\ "SOURCES" \notin recipe.defined =>
         pc \in {"start", "loaded", "validated", "exited"}
    /\ "PREPARE" \notin recipe.defined =>
         pc \notin {"PREPARE", "prepared", "PACKAGE", "packaged"}
    /\ "PACKAGE" \notin recipe.defined => pc \notin {"PACKAGE", "packaged"}
    /\ \A name \in {"SOURCES", "PREPARE", "PACKAGE"} :
         name \notin recipe.defined => (~Invoked(name) /\ outputs = {})
    /\ (outputs # {} \/ exit = <<0>>) =>
         /\ \A name \in {"SOURCES", "PREPARE", "PACKAGE"} : Invoked(name)
         /\ \A i \in 1..Len(invoked) : invoked[i].out = "ok"

C7_Witness ==
    /\ exit = <<0>>
    /\ Names = <<"SOURCES", "VERSION", "PREPARE", "PACKAGE">>
    /\ outputs = {"manifest", "metadata", "archive"}

\* C8: no lifecycle callback is invoked unless every required field is
\* present in the metadata table and the version is declared through
\* exactly one channel.
C8_MetadataBeforeCallbacks ==
    invoked # <<>> =>
        /\ recipe.info
        /\ recipe.missing = {}
        /\ DeclaresLiteral # DeclaresCallback

\* the host has written below the package root
PackageWritten ==
    \E t \in touched :
        /\ t.how = "write"
        /\ Under(pkg_dir, t.path)
        /\ t.path # Phys(pkg_dir)

\* C9: when the host architecture is not in the recipe's list, PREPARE and
\* PACKAGE are never invoked, Finalize writes nothing, nothing is written
\* into the package directory, and the build exits with status 1.
C9_ArchitectureGate ==
    (MetadataRead /\ ~recipe.arch_ok) =>
        /\ ~Invoked("PREPARE") /\ ~Invoked("PACKAGE")
        /\ outputs = {}
        /\ ~PackageWritten
        /\ pc = "exited" => exit = <<1>>

\* C10: a run that ends ends with status 0 or 1: 0 exactly when Finalize
\* made the archive, 1 with a diagnostic on standard error otherwise.
C10_ExitCodes ==
    pc = "exited" =>
        /\ exit \in {<<0>>, <<1>>}
        /\ exit = <<0>> <=> "archive" \in outputs
        /\ exit = <<1>> => stderr # <<>>

\* the entries of the package tree: what lies below the package root
PackageTree(f) ==
    {p \in DOMAIN f : IsPrefixSeq(Phys(pkg_dir), p) /\ p # Phys(pkg_dir)}

RECURSIVE Slashed(_)
Slashed(names) ==
    IF names = <<>> THEN <<>>
    ELSE <<"/">> \o Head(names) \o Slashed(Tail(names))

\* an entry's path below the package root, with "/" in front
EntryLine(p) == Slashed(SubSeq(p, Len(Phys(pkg_dir)) + 1, Len(p)))

\* Finalize writes the manifest in this step
WritesManifest == "manifest" \notin outputs /\ "manifest" \in outputs'

\* C11: the manifest Finalize writes holds exactly the lines "/" + path
\* below the package root of the regular files and symbolic links of the
\* package tree it walked, and no line for a directory.
C11_ManifestExact ==
    [][WritesManifest =>
        manifest' = {EntryLine(p) : p \in {q \in PackageTree(fs) :
                                              fs[q].kind \in {"file", "link"}}}]_vars

-----------------------------------------------------------------------------
(* More properties of the host functions, checked under SpecHost *)

PathErrors == {"PathTraversal", "NotInTargetDir", "InvalidPath"}

\* a host function returns in this step
HostReturns == calls' = calls + 1

\* the checks the call c makes of its path arguments, on the disk f
ArgChecks(c, f) ==
    IF c.op \in {"download", "file_load", "file_save", "sha256sum_file",
                 "git.clone", "git.load"}
    THEN {sanitize_path(src_dir, c.args[1])}
    ELSE IF c.op = "unpack_tarball"
    THEN {sanitize_path(src_dir, c.args[1]), validate_absolute_path(f, c.args[2])}
    ELSE IF c.op = "copy"
    THEN {sanitize_path(src_dir, c.args[1]), sanitize_path(pkg_dir, c.args[2])}
    ELSE IF c.op = "link"
    THEN {validate_absolute_path(f, c.args[1]), sanitize_path(pkg_dir, c.args[2])}
    ELSE {}

\* a path argument of the call c does not pass its check
Rejected(c, f) == \E r \in ArgChecks(c, f) : r.tag # "Ok"

\* C12: when a path argument of a host function fails its confinement
\* check, the call returns one of the path errors to the recipe; it never
\* unwinds through the recipe instead.
C12_FailureReturned ==
    [][(HostReturns /\ Rejected(last', fs)) => last'.out \in PathErrors]_vars

\* the host functions that write, and the confined destination of a call
Mutating == {"download", "file_save", "copy", "link", "git.clone"}

DestOf(c) ==
    IF c.op \in {"copy", "link"} THEN sanitize_path(pkg_dir, c.args[2])
    ELSE sanitize_path(src_dir, c.args[1])

\* the directory the path q is to be created in does not exist on f
ParentMissing(f, q) ==
    parent(q) # NoPath /\ Stat(f, parent(q)).st \in {"absent", "enoent"}

\* C13: a writing host function whose destination passes confinement and
\* lies in directories that do not exist yet creates those directories:
\* whether the call succeeds or fails with an I/O error, the parent
\* directory of the destination exists afterwards.
C13_ParentsCreated ==
    [][(/\ HostReturns
        /\ last'.op \in Mutating
        /\ ~Rejected(last', fs)
        /\ ParentMissing(fs, DestOf(last').path)
        /\ last'.out \in {"Ok", "IoError"})
       => is_dir(fs', parent(DestOf(last').path))]_vars

\* no regular file was created or changed from f to g
NoFileWritten(f, g) ==
    \A p \in DOMAIN g : g[p].kind = "file" => (p \in DOMAIN f /\ f[p] = g[p])

\* the symbolic links of f
Links(f) == {p \in DOMAIN f : f[p].kind = "link"}

\* nothing exists at the path q, and no file stands in the way of its
\* parent directories
Free(f, q) == LStat(f, q).st \in {"absent", "enoent"}

\* the path q holds a symbolic link whose stored target is t
LinkAt(f, q, t) == is_symlink(f, q) /\ f[LStat(f, q).path].target = t

\* what link makes of a target or link path that does not pass its check
LinkRejects(target, link_path) ==
    LET abs_target == validate_absolute_path(fs, target)
        abs_link == sanitize_path(pkg_dir, link_path)
    IN /\ abs_target.tag # "Ok" => (last'.out = "InvalidPath" /\ fs' = fs)
       /\ (abs_target.tag = "Ok" /\ abs_link.tag # "Ok") =>
             (last'.out = "PathTraversal" /\ fs' = fs)

\* C15 as stated: link(target, link_path) with an existing absolute target
\* and a link path that does not traverse creates a symbolic link at
\* sanitize_path(pkg_dir, link_path) that stores the target as given, and
\* writes no file; with a relative or missing target it fails with
\* InvalidPath, with a traversing link path with PathTraversal, and then
\* changes nothing.
C15_LinkCreates ==
    [][(HostReturns /\ last'.op = "link") =>
        LET target == last'.args[1]
            link_path == last'.args[2]
            abs_link == sanitize_path(pkg_dir, link_path)
        IN /\ LinkRejects(target, link_path)
           /\ ~Rejected(last', fs) =>
                 /\ last'.out = "Ok"
                 /\ LinkAt(fs', abs_link.path, target)
                 /\ NoFileWritten(fs, fs')]_vars

\* C15, amended: the same when nothing exists yet at the link's path; when
\* something does, the call fails with an I/O error and makes no link.
C15_LinkCreatesWhenFree ==
    [][(HostReturns /\ last'.op = "link") =>
        LET target == last'.args[1]
            link_path == last'.args[2]
            abs_link == sanitize_path(pkg_dir, link_path)
        IN /\ LinkRejects(target, link_path)
           /\ (~Rejected(last', fs) /\ Free(fs, abs_link.path)) =>
                 /\ last'.out = "Ok"
                 /\ LinkAt(fs', abs_link.path, target)
                 /\ Links(fs') = Links(fs) \cup {LStat(fs', abs_link.path).path}
                 /\ NoFileWritten(fs, fs')
           /\ (~Rejected(last', fs) /\ ~Free(fs, abs_link.path)) =>
                 /\ last'.out = "IoError"
                 /\ Links(fs') = Links(fs)
                 /\ NoFileWritten(fs, fs')]_vars

\* a link to /o made at d/a below the package root, d made for it
C15_Witness ==
    /\ pc = "host"
    /\ last = [op |-> "link", args |-> <<SlashO, DA>>, out |-> "Ok"]
    /\ LinkAt(fs, Join(pkg_dir, DA), SlashO)
    /\ [how |-> "write", path |-> Append(Phys(pkg_dir), D)] \in touched

\* C16: a call of file_save, copy, link, unpack_tarball or download with a
\* path argument that sanitize_path or validate_absolute_path rejects
\* returns that path error and leaves the file system as it was.
C16_RejectedChangesNothing ==
    [][(/\ HostReturns
        /\ last'.op \in {"file_save", "copy", "link", "unpack_tarball", "download"}
        /\ Rejected(last', fs))
       => (last'.out \in PathErrors /\ fs' = fs)]_vars

\* a download to a path that climbs, on a disk that holds an archive
C16_Witness ==
    /\ pc = "host"
    /\ calls = 1
    /\ last = [op |-> "download", args |-> <<UpA>>, out |-> "PathTraversal"]
    /\ fs = UsedDisk
    /\ touched = {}

-----------------------------------------------------------------------------
(* Properties of extract_tarball, checked under SpecTar *)

\* the table of suffixes and codecs
SuffixTable ==
    {[suffix |-> <<".", "t", "a", "r", ".", "g", "z">>, codec |-> "gz"],
     [suffix |-> <<".", "t", "g", "z">>, codec |-> "gz"],
     [suffix |-> <<".", "t", "a", "r", ".", "b", "z", "2">>, codec |-> "bz2"],
     [suffix |-> <<".", "t", "b", "z", "2">>, codec |-> "bz2"],
     [suffix |-> <<".", "t", "a", "r", ".", "x", "z">>, codec |-> "xz"],
     [suffix |-> <<".", "t", "x", "z">>, codec |-> "xz"],
     [suffix |-> <<".", "t", "a", "r", ".", "z", "s", "t">>, codec |-> "zst"],
     [suffix |-> <<".", "t", "z", "s", "t">>, codec |-> "zst"],
     [suffix |-> <<".", "t", "a", "r">>, codec |-> "tar"]}

\* the codecs of the table rows whose suffix the name ends with
Matching(name) == {row.codec : row \in {x \in SuffixTable : ends_with(name, x.suffix)}}

\* the codec the table gives the name: that of its row, "tar" without one
TableCodec(name) ==
    IF Matching(name) = {} THEN "tar" ELSE CHOOSE c \in Matching(name) : TRUE

\* C14: every file name matches the suffixes of at most one codec of the
\* table; extract_tarball decodes with that codec, and with none (a plain
\* tar stream) when no suffix matches; the content of the file plays no
\* part in the choice, so extraction succeeds exactly when the content is
\* a tar stream in the chosen encoding, and otherwise fails in the decoder
\* with an I/O error.
C14_CodecBySuffix ==
    pc = "tar" =>
        /\ Cardinality(Matching(rel)) <= 1
        /\ Codec(Join(src_dir, rel)) = TableCodec(rel)
        /\ last.op = "extract_tarball" =>
             /\ last.out \in {"Ok", "IoError"}
             /\ last.out = "Ok" <=> DataOf(fs, Join(src_dir, rel)) = TableCodec(rel)

\* a file of a name outside the table, holding a plain tar stream, is
\* extracted
C14_Witness ==
    /\ pc = "tar"
    /\ rel = <<"a", ".", "z", "i", "p">>
    /\ last.op = "extract_tarball" /\ last.out = "Ok"
    /\ DataOf(fs, Join(src_dir, rel)) = "tar"
    /\ is_file(fs, Join(TarDest, ArchiveEntry))

-----------------------------------------------------------------------------
(* The containment check of sanitize_path, checked under SpecPath *)

\* C17: sanitize_path never returns NotInTargetDir: when the cleaned input
\* holds no "..", what is left after the root is stripped is relative, and
\* base joined with it starts with base.
C17_ContainmentNeverFires ==
    /\ res.tag # "NotInTargetDir"
    /\ res2.tag # "NotInTargetDir"
    /\ (pc = "path" /\ ~HasParentDir(clean(rel))) =>
         /\ ~is_absolute(StripRoot(clean(rel)))
         /\ ~HasParentDir(StripRoot(clean(rel)))
         /\ Contained(Join(base, StripRoot(clean(rel))), base)

\* a rooted input whose ".." normalizes away is accepted below base
C17_Witness ==
    /\ pstep = "sanitized"
    /\ rel = <<"/", "a", "/", ".", ".">>
    /\ res.tag = "Ok"
    /\ PathEq(res.path, base)

-----------------------------------------------------------------------------
(* The walk of Finalize, checked under Spec *)

\* C18: the walk records only entries of the package tree, each symbolic
\* link as one line, and none reached through a symbolic link.
C18_WalkStaysInTree ==
    [][WritesManifest =>
        /\ manifest' \subseteq {EntryLine(p) : p \in PackageTree(fs)}
        /\ \A p \in PackageTree(fs) :
              fs[p].kind = "link" => EntryLine(p) \in manifest']_vars

=============================================================================
